---- MODULE Spec2Model ----
(***************************************************************************)
(* A model of mbta_info.py: the graph builder of print_connecting_routes,  *)
(* the route-level breadth-first search BFS, and the statistics pass of    *)
(* print_system_info.                                                      *)
(*                                                                         *)
(* data_dict is the dictionary route_id -> {long_name, stops_dict} that    *)
(* get_subway_data returns.  Python dictionaries iterate in insertion      *)
(* order, so data_dict is a sequence: entry k is the route whose id is     *)
(* RouteIds[k], and position j of its stops_dict is the j-th stop id of    *)
(* that route.  Only the names are stored, because the code never looks at *)
(* an id.  Two entries may carry the same long_name and two positions the  *)
(* same stop name.                                                         *)
(*                                                                         *)
(* The code compares names for equality only, so the inputs are drawn up   *)
(* to renaming: the k-th new name that shows up in the input is            *)
(* RouteNames[k] (StopNames[k]).                                           *)
(***************************************************************************)
EXTENDS Integers, Sequences, FiniteSets, TLC

\* The route ids of the input, in the order the routes endpoint returns them.
RouteIds == <<"r1", "r2", "r3">>

\* The display names routes and stops may carry.
RouteNames == <<"Red", "Orange", "Blue">>
StopNames == <<"A", "B", "C">>

\* Largest number of stop ids one route has.
MaxStops == 2

VARIABLES
    data_dict,       \* the part of the input iterated so far
    stop_routes,     \* dict stop name -> list of route names
    route_stops,     \* dict route name -> list of stop names
    start_name,      \* BFS argument
    end_name,        \* BFS argument
    queue,           \* BFS: list of stop names
    visited,         \* BFS: list of route names
    curr_stop_name,  \* BFS: last stop popped
    route_idx,       \* BFS: position of the for loop in stop_routes[curr_stop_name]
    routes,          \* the value BFS returned
    error,           \* the message of the ValueError raised, <<>> if none
    pc,              \* control location
    dequeues,        \* number of queue.pop(0) executed
    min_stops,       \* print_system_info accumulators
    min_route,
    max_stops,
    max_route

vars == <<data_dict, stop_routes, route_stops, start_name, end_name, queue,
          visited, curr_stop_name, route_idx, routes, error, pc, dequeues,
          min_stops, min_route, max_stops, max_route>>

bfs_vars == <<start_name, end_name, queue, visited, curr_stop_name,
              route_idx, routes, error, dequeues>>

info_vars == <<min_stops, min_route, max_stops, max_route>>

-----------------------------------------------------------------------------
(* Helpers *)

Range(s) == {s[k] : k \in 1..Len(s)}

Min(a, b) == IF a < b THEN a ELSE b

\* The empty dict {}.
EmptyDict == [k \in {} |-> <<>>]

\* All sequences over S of length at most n.
SeqsUpTo(S, n) == UNION {[1..m -> S] : m \in 0..n}

\* The names the next input item may carry when `used` names were seen so far.
NextNames(Names, used) ==
    {Names[k] : k \in 1..Min(Cardinality(used) + 1, Len(Names))}

\* Every stop name in the input so far.
StopNamesIn(dd) == UNION {Range(dd[k].stops_dict) : k \in 1..Len(dd)}

\* Every route name in the input so far.
RouteNamesIn(dd) == {dd[k].long_name : k \in 1..Len(dd)}

\* A sequence of stop names whose new names appear in StopNames order.
FreshOrdered(used, stops) ==
    \A k \in 1..Len(stops) :
        stops[k] \in NextNames(StopNames, used \cup {stops[j] : j \in 1..(k - 1)})

-----------------------------------------------------------------------------
(* Python primitives *)

\* d[k] = [v]: the assignment that forgets what k held.
Overwrite(d, k, v) ==
    [x \in DOMAIN d \cup {k} |-> IF x = k THEN <<v>> ELSE d[x]]

\* d.setdefault(k, []).append(v)
SetDefaultAppend(d, k, v) ==
    IF k \in DOMAIN d
    THEN [d EXCEPT ![k] = Append(@, v)]
    ELSE [x \in DOMAIN d \cup {k} |-> IF x = k THEN <<v>> ELSE d[x]]

\* math.inf and a finite number, as values one can compare.
MathInf == [inf |-> TRUE]
Num(n) == [inf |-> FALSE, n |-> n]

\* count < m for an int count and m one of the above.
LessThan(count, m) == m.inf \/ count < m.n

\* The two ValueError messages of BFS.
NoStationFound(name) == <<"No station found named", name>>
NoTripFound(s, e) == <<"No trip found between", s, e>>

-----------------------------------------------------------------------------
(* State after construction *)

InitVars ==
    /\ data_dict = <<>>
    /\ stop_routes = EmptyDict
    /\ route_stops = EmptyDict
    /\ start_name = ""
    /\ end_name = ""
    /\ queue = <<>>
    /\ visited = <<>>
    /\ curr_stop_name = ""
    /\ route_idx = 1
    /\ routes = <<>>
    /\ error = <<>>
    /\ dequeues = 0
    /\ min_stops = MathInf
    /\ min_route = ""
    /\ max_stops = 0
    /\ max_route = ""

Init == InitVars /\ pc = "build"

-----------------------------------------------------------------------------
(* print_connecting_routes: the graph builder *)

\* The outer loop takes the next route of data_dict.
BuildRoute(long_name) ==
    /\ pc = "build"
    /\ Len(data_dict) < Len(RouteIds)
    /\ data_dict' = Append(data_dict, [long_name |-> long_name, stops_dict |-> <<>>])
    /\ UNCHANGED <<stop_routes, route_stops, pc>>
    /\ UNCHANGED bfs_vars
    /\ UNCHANGED info_vars

\* The inner loop takes the next stop of the current route.
BuildStop(stop_name) ==
    /\ pc = "build"
    /\ data_dict # <<>>
    /\ LET n == Len(data_dict)
           route_name == data_dict[n].long_name
       IN /\ Len(data_dict[n].stops_dict) < MaxStops
          /\ data_dict' = [data_dict EXCEPT ![n].stops_dict = Append(@, stop_name)]
          /\ stop_routes' = SetDefaultAppend(stop_routes, stop_name, route_name)
          /\ route_stops' = SetDefaultAppend(route_stops, route_name, stop_name)
    /\ UNCHANGED pc
    /\ UNCHANGED bfs_vars
    /\ UNCHANGED info_vars

-----------------------------------------------------------------------------
(* BFS *)

\* The two entry checks in the other order.
UnknownStopEndFirst(d, s, e) ==
    IF e \notin DOMAIN d THEN <<e>>
    ELSE IF s \notin DOMAIN d THEN <<s>>
    ELSE <<>>

\* The name the entry checks complain about, <<>> when both are known.
UnknownStop(d, s, e) ==
    IF s \notin DOMAIN d THEN <<s>>
    ELSE IF e \notin DOMAIN d THEN <<e>>
    ELSE <<>>

\* start_name in queue: the test made on the wrong name.
StartInQueue(e, q) == \E k \in 1..Len(q) : q[k] = start_name

\* queue and queue[0] == end_name: the test made on the next stop only.
HeadIsEnd(e, q) == q # <<>> /\ q[1] = e

\* end_name in queue
EndInQueue(e, q) == \E k \in 1..Len(q) : q[k] = e

\* The for loop without its visited test.
NeverVisited(route_name, v) == TRUE

\* route_name not in visited
NotVisited(route_name, v) == \A k \in 1..Len(v) : v[k] # route_name

\* queue.extend(route_stops[route_name][:-1]): the last stop left out.
ExtendAllButLast(q, stops) == q \o SubSeq(stops, 1, Len(stops) - 1)

\* queue.extend(route_stops[route_name])
Extend(q, stops) == q \o stops

\* The routes the for loop runs over.
RoutesAt(d, stop) == d[stop]

\* continue in place of the raise: the loop goes on with an empty queue.
SkipRaise ==
    /\ pc' = "while"
    /\ error' = error

\* raise ValueError('No trip found between ...')
RaiseNoTrip ==
    /\ pc' = "raised"
    /\ error' = NoTripFound(start_name, end_name)

\* The call of BFS at the end of the builder loop, up to the loop head.
CallBFS(s, e) ==
    /\ pc = "build"
    /\ start_name' = s
    /\ end_name' = e
    /\ LET unknown == UnknownStop(stop_routes, s, e)
       IN IF unknown # <<>>
          THEN /\ pc' = "raised"
               /\ error' = NoStationFound(unknown[1])
               /\ UNCHANGED <<queue, visited>>
          ELSE /\ queue' = <<s>>
               /\ visited' = <<>>
               /\ pc' = "while"
               /\ UNCHANGED error
    /\ UNCHANGED <<data_dict, stop_routes, route_stops, curr_stop_name,
                   route_idx, routes, dequeues>>
    /\ UNCHANGED info_vars

\* The head of the while loop: break, raise, or pop.
BFSWhile ==
    /\ pc = "while"
    /\ IF EndInQueue(end_name, queue)
       THEN /\ pc' = "returned"
            /\ routes' = visited
            /\ UNCHANGED <<queue, curr_stop_name, route_idx, error, dequeues>>
       ELSE IF queue = <<>>
       THEN /\ RaiseNoTrip
            /\ UNCHANGED <<queue, curr_stop_name, route_idx, routes, dequeues>>
       ELSE /\ curr_stop_name' = Head(queue)
            /\ queue' = Tail(queue)
            /\ dequeues' = dequeues + 1
            /\ route_idx' = 1
            /\ pc' = IF Len(RoutesAt(stop_routes, Head(queue))) = 0
                     THEN "while" ELSE "for"
            /\ UNCHANGED <<routes, error>>
    /\ UNCHANGED <<data_dict, stop_routes, route_stops, start_name, end_name,
                   visited>>
    /\ UNCHANGED info_vars

\* One pass of the for loop over the routes of the popped stop.
BFSFor ==
    /\ pc = "for"
    /\ LET serving == RoutesAt(stop_routes, curr_stop_name)
           route_name == serving[route_idx]
       IN /\ IF NotVisited(route_name, visited)
             THEN /\ queue' = Extend(queue, route_stops[route_name])
                  /\ visited' = Append(visited, route_name)
             ELSE UNCHANGED <<queue, visited>>
          /\ IF route_idx < Len(serving)
             THEN /\ route_idx' = route_idx + 1
                  /\ pc' = "for"
             ELSE /\ route_idx' = 1
                  /\ pc' = "while"
    /\ UNCHANGED <<data_dict, stop_routes, route_stops, start_name, end_name,
                   curr_stop_name, routes, error, dequeues>>
    /\ UNCHANGED info_vars

Next ==
    \/ \E long_name \in NextNames(RouteNames, RouteNamesIn(data_dict)) :
           BuildRoute(long_name)
    \/ \E stop_name \in NextNames(StopNames, StopNamesIn(data_dict)) :
           BuildStop(stop_name)
    \/ \E s \in Range(StopNames), e \in Range(StopNames) : CallBFS(s, e)
    \/ BFSWhile
    \/ BFSFor

Spec == Init /\ [][Next]_vars

\* Once BFS is called it runs to its end: nothing suspends it.
FairSpec == Spec /\ WF_vars(BFSWhile) /\ WF_vars(BFSFor)

-----------------------------------------------------------------------------
(* print_system_info *)

\* The inner loop over one route's stops_dict: each stop name gets route_name.
RECURSIVE AppendRoute(_, _, _)
AppendRoute(d, stops, route_name) ==
    IF stops = <<>> THEN d
    ELSE AppendRoute(SetDefaultAppend(d, Head(stops), route_name),
                     Tail(stops), route_name)

\* {k: v for k, v in stop_routes.items() if len(v) > 1}
MoreThanOneRoute(d) ==
    [k \in {x \in DOMAIN d : Len(d[x]) > 1} |-> d[k]]

InfoInit == InitVars /\ pc = "info"

\* One pass of the loop over data_dict: the next route and all its stops.
InfoRoute(long_name, stops) ==
    /\ pc = "info"
    /\ Len(data_dict) < Len(RouteIds)
    /\ FreshOrdered(StopNamesIn(data_dict), stops)
    /\ data_dict' = Append(data_dict, [long_name |-> long_name, stops_dict |-> stops])
    /\ LET stop_count == Len(stops)
       IN /\ IF stop_count > max_stops
             THEN /\ max_stops' = stop_count
                  /\ max_route' = long_name
             ELSE UNCHANGED <<max_stops, max_route>>
          /\ IF LessThan(stop_count, min_stops)
             THEN /\ min_stops' = Num(stop_count)
                  /\ min_route' = long_name
             ELSE UNCHANGED <<min_stops, min_route>>
    /\ stop_routes' = AppendRoute(stop_routes, stops, long_name)
    /\ UNCHANGED <<route_stops, pc>>
    /\ UNCHANGED bfs_vars

\* After the loop: keep the shared stops and print the report.
InfoPrint ==
    /\ pc = "info"
    /\ stop_routes' = MoreThanOneRoute(stop_routes)
    /\ pc' = "printed"
    /\ UNCHANGED <<data_dict, route_stops>>
    /\ UNCHANGED bfs_vars
    /\ UNCHANGED info_vars

InfoNext ==
    \/ \E long_name \in NextNames(RouteNames, RouteNamesIn(data_dict)),
          stops \in SeqsUpTo(Range(StopNames), MaxStops) :
           InfoRoute(long_name, stops)
    \/ InfoPrint

InfoSpec == InfoInit /\ [][InfoNext]_vars

-----------------------------------------------------------------------------
(* The graph as the claims speak of it *)

\* Route name r serves stop name s.
Serves(r, s) == r \in DOMAIN route_stops /\ s \in Range(route_stops[r])

\* Two route names have a stop name in common.
Share(r1, r2) == Range(route_stops[r1]) \cap Range(route_stops[r2]) # {}

\* The route names linked to a route of S by a chain of shared stops.
RECURSIVE Linked(_)
Linked(S) ==
    LET more == S \cup {r \in DOMAIN route_stops : \E q \in S : Share(q, r)}
    IN IF more = S THEN S ELSE Linked(more)

\* A chain of routes linked by shared stops leads from s to e.
Connected(s, e) ==
    \E r \in Linked({q \in DOMAIN route_stops : Serves(q, s)}) : Serves(r, e)

NoDuplicates(seq) == \A j, k \in 1..Len(seq) : j # k => seq[j] # seq[k]

RECURSIVE StopEntries(_)
\* The number of stop entries on the routes of a sequence of route names.
StopEntries(seq) ==
    IF seq = <<>> THEN 0
    ELSE Len(route_stops[Head(seq)]) + StopEntries(Tail(seq))

InBFS == pc \in {"while", "for"}

-----------------------------------------------------------------------------
(* C1 *)

\* C1, as stated: the returned routes, read in order, are an itinerary: the
\* first serves start, the last serves end, and every two consecutive routes
\* share a stop.
C1_Itinerary ==
    (pc = "returned" /\ start_name # end_name) =>
        /\ routes # <<>>
        /\ Serves(routes[1], start_name)
        /\ Serves(routes[Len(routes)], end_name)
        /\ \A k \in 1..(Len(routes) - 1) : Share(routes[k], routes[k + 1])

\* C1, amended: the first returned route serves start, some returned route
\* serves end, and every returned route after the first shares a stop with a
\* route earlier in the sequence.
C1_ConnectedSet ==
    (pc = "returned" /\ start_name # end_name) =>
        /\ routes # <<>>
        /\ Serves(routes[1], start_name)
        /\ \E k \in 1..Len(routes) : Serves(routes[k], end_name)
        /\ \A k \in 2..Len(routes) : \E j \in 1..(k - 1) : Share(routes[j], routes[k])

\* A returned sequence of three routes whose last two share no stop.
C1_Witness ==
    /\ pc = "returned"
    /\ start_name # end_name
    /\ Len(routes) = 3
    /\ ~Share(routes[2], routes[3])

-----------------------------------------------------------------------------
(* C2 *)

\* C2: with start and end both keys of stop_routes, BFS ends with the
\* 'No trip found' error exactly when start differs from end and no chain of
\* routes linked by shared stops connects them; otherwise it returns.
C2_NoPathIffDisconnected ==
    (/\ pc \in {"returned", "raised"}
     /\ start_name \in DOMAIN stop_routes
     /\ end_name \in DOMAIN stop_routes) =>
        IF start_name # end_name /\ ~Connected(start_name, end_name)
        THEN pc = "raised" /\ error = NoTripFound(start_name, end_name)
        ELSE pc = "returned" /\ error = <<>>

\* Red: [A, B], Orange: [C], start A, end C: the search exhausts Red.
C2_Witness ==
    /\ pc = "raised"
    /\ error = NoTripFound("A", "C")
    /\ data_dict = <<[long_name |-> "Red", stops_dict |-> <<"A", "B">>],
                     [long_name |-> "Orange", stops_dict |-> <<"C">>]>>
    /\ dequeues = 3

-----------------------------------------------------------------------------
(* C3 *)

\* C3: an unknown start is reported by name, an unknown end likewise, the
\* start first when both are unknown, and the failure leaves the queue
\* uncreated: nothing dequeued, nothing visited.
C3_UnknownStop ==
    pc \notin {"build", "info", "printed"} =>
        /\ start_name \notin DOMAIN stop_routes =>
               /\ pc = "raised"
               /\ error = NoStationFound(start_name)
               /\ queue = <<>> /\ visited = <<>> /\ dequeues = 0
        /\ (start_name \in DOMAIN stop_routes /\ end_name \notin DOMAIN stop_routes) =>
               /\ pc = "raised"
               /\ error = NoStationFound(end_name)
               /\ queue = <<>> /\ visited = <<>> /\ dequeues = 0

\* Both names unknown and different, on a graph that has stops.
C3_Witness ==
    /\ pc = "raised"
    /\ stop_routes # EmptyDict
    /\ start_name \notin DOMAIN stop_routes
    /\ end_name \notin DOMAIN stop_routes
    /\ start_name # end_name
    /\ error = NoStationFound(start_name)

-----------------------------------------------------------------------------
(* C4 *)

\* C4: once the BFS loop is entered it eventually ends, by returning or by
\* raising, however many duplicates the queue holds.
C4_Terminates == [](InBFS => <>(pc \in {"returned", "raised"}))

\* A search that ended after popping more stops than there are stop names:
\* duplicates were dequeued.
C4_Witness ==
    /\ pc \in {"returned", "raised"}
    /\ dequeues > Cardinality(DOMAIN stop_routes)

-----------------------------------------------------------------------------
(* C5 *)

\* C5, as stated: a pop whose stop has only visited routes (so the iteration
\* cannot grow visited) leaves the queue empty, and the number of pops never
\* exceeds the number of distinct route names plus one.
C5_GrowsOrExhausted ==
    /\ [][(pc = "while" /\ dequeues' = dequeues + 1) =>
              \/ \E r \in Range(stop_routes[curr_stop_name']) : r \notin Range(visited)
              \/ queue' = <<>>]_vars
    /\ [](dequeues <= Cardinality(DOMAIN route_stops) + 1)

\* C5, amended: no route name is appended to visited twice, every stop put in
\* the queue is a stop entry of a visited route (or the start), so the pops
\* done plus the stops still queued equal one plus the stop entries of the
\* visited routes, and the number of pops never exceeds that.
C5_VisitedOnce ==
    (InBFS \/ pc = "returned" \/ (pc = "raised" /\ error = NoTripFound(start_name, end_name))) =>
        /\ NoDuplicates(visited)
        /\ dequeues + Len(queue) = 1 + StopEntries(visited)
        /\ dequeues <= 1 + StopEntries(visited)

\* At the loop head after a pop that left visited as it was, with stops still
\* queued and more pops done than there are route names plus one.
C5_Witness ==
    /\ pc = "while"
    /\ queue # <<>>
    /\ dequeues > Cardinality(DOMAIN route_stops) + 1
    /\ \A r \in Range(stop_routes[curr_stop_name]) : r \in Range(visited)

-----------------------------------------------------------------------------
(* C6 *)

\* C6: after every incidence the builder appends, stop name s is in
\* route_stops[r] exactly when route name r is in stop_routes[s].
C6_Inverse ==
    \A r \in Range(RouteNames), s \in Range(StopNames) :
        (r \in DOMAIN route_stops /\ s \in Range(route_stops[r]))
            <=> (s \in DOMAIN stop_routes /\ r \in Range(stop_routes[s]))

\* Two route ids named alike, the first with two stop ids named alike.
C6_Witness ==
    /\ pc = "build"
    /\ Len(data_dict) = 3
    /\ data_dict[1].long_name = data_dict[2].long_name
    /\ data_dict[1].stops_dict = <<"A", "A">>
    /\ Len(data_dict[3].stops_dict) = 2

-----------------------------------------------------------------------------
(* C10 *)

\* C10, as stated: once end is in the queue no further route is marked
\* visited, and the value returned is visited as it stood at that moment.
C10_StopsAtOnce ==
    [][(InBFS /\ end_name \in Range(queue)) =>
           /\ visited' = visited
           /\ (pc' = "returned" => routes' = visited)]_vars

\* C10, amended: once end is in the queue no further stop is dequeued; the for
\* loop over the routes of the stop being processed runs to its end, and the
\* loop head then returns visited as it stands there.
C10_StopsAtLoopHead ==
    [][(InBFS /\ end_name \in Range(queue)) =>
           /\ dequeues' = dequeues
           /\ curr_stop_name' = curr_stop_name
           /\ (pc = "while" => (pc' = "returned" /\ routes' = visited /\ visited' = visited))
           /\ (pc = "for" => pc' \in {"for", "while"})]_vars

\* A search that returned a route visited after end had entered the queue.
C10_Witness ==
    /\ pc = "returned"
    /\ start_name # end_name
    /\ ~Serves(routes[Len(routes)], end_name)

-----------------------------------------------------------------------------
(* The report of print_system_info as the claims speak of it *)

\* The stop counts of the routes iterated.
StopCounts == {Len(data_dict[k].stops_dict) : k \in 1..Len(data_dict)}

\* The first route in iteration order with the given stop count.
FirstWithCount(c) ==
    LET k == CHOOSE i \in 1..Len(data_dict) :
                 /\ Len(data_dict[i].stops_dict) = c
                 /\ \A j \in 1..(i - 1) : Len(data_dict[j].stops_dict) # c
    IN data_dict[k].long_name

\* The positions in data_dict of the routes that have a stop named s.
RoutesWith(s) == {k \in 1..Len(data_dict) : s \in Range(data_dict[k].stops_dict)}

\* The names of those routes, in iteration order.
RECURSIVE NamesFrom(_, _)
NamesFrom(k, s) ==
    IF k > Len(data_dict) THEN <<>>
    ELSE (IF k \in RoutesWith(s) THEN <<data_dict[k].long_name>> ELSE <<>>)
             \o NamesFrom(k + 1, s)

-----------------------------------------------------------------------------
(* C7 *)

\* C7: for an empty input the report is longest = ('', 0 stops), shortest =
\* ('', 0 stops) and no shared stop.
C7_EmptyReport ==
    (pc = "printed" /\ data_dict = <<>>) =>
        /\ max_route = "" /\ max_stops = 0
        /\ min_route = "" /\ min_stops = Num(0)
        /\ stop_routes = EmptyDict

-----------------------------------------------------------------------------
(* C8 *)

\* C8: for a non-empty input the longest route reported is the first with the
\* largest stop count and the shortest the first with the smallest, each with
\* that count.
C8_FirstLongestShortest ==
    (pc = "printed" /\ data_dict # <<>>) =>
        LET most == CHOOSE c \in StopCounts : \A d \in StopCounts : d <= c
            least == CHOOSE c \in StopCounts : \A d \in StopCounts : c <= d
        IN /\ max_stops = most /\ max_route = FirstWithCount(most)
           /\ min_stops = Num(least) /\ min_route = FirstWithCount(least)

-----------------------------------------------------------------------------
(* C9 *)

\* C9: a stop name is reported as connecting exactly when it is on more than
\* one route, with the names of the routes serving it in iteration order.
C9_SharedStops ==
    pc = "printed" =>
        \A s \in Range(StopNames) :
            /\ s \in DOMAIN stop_routes <=> Cardinality(RoutesWith(s)) > 1
            /\ s \in DOMAIN stop_routes => stop_routes[s] = NamesFrom(1, s)

====
